---- MODULE Spec2Model ----
(***************************************************************************)
(* Cache-or-build loaders of the college scorecard project (code/util.py)  *)
(* and the data processing built on them (code/main.py).                   *)
(*                                                                         *)
(* Text (file names, cell texts) is a sequence of one-character strings,   *)
(* so that searching, splitting, parsing and formatting are computed.      *)
(* A file on disk is a pair <<kind, data>>; a cell value of a DataFrame is *)
(* a pair <<dtype, text>>.                                                 *)
(***************************************************************************)
EXTENDS Integers, Sequences, FiniteSets, TLC

VARIABLES loader, use_cache, remote, college_document, disk, calls

vars == <<loader, use_cache, remote, college_document, disk, calls>>

(***************************************************************************)
(* Bounds of the model.                                                    *)
(***************************************************************************)
\* load() calls followed in one run
MaxLoads == 2
\* members of a downloaded zip archive
MaxMembers == 2
\* rows of the data dictionary sheet
MaxSheetRows == 2

(***************************************************************************)
(* Text helpers (str methods, os.path, re, int, str).                      *)
(***************************************************************************)
Digits == {"0", "1", "2", "3", "4", "5", "6", "7", "8", "9"}

DigitVal(c) ==
    CASE c = "0" -> 0 [] c = "1" -> 1 [] c = "2" -> 2 [] c = "3" -> 3
      [] c = "4" -> 4 [] c = "5" -> 5 [] c = "6" -> 6 [] c = "7" -> 7
      [] c = "8" -> 8 [] c = "9" -> 9

DigitChar(d) == <<"0", "1", "2", "3", "4", "5", "6", "7", "8", "9">>[d + 1]

\* s[a..b], 1-based and inclusive; empty when b < a
Slice(s, a, b) == [i \in 1..(IF b >= a THEN b - a + 1 ELSE 0) |-> s[a + i - 1]]

endswith(s, suffix) ==
    /\ Len(s) >= Len(suffix)
    /\ Slice(s, Len(s) - Len(suffix) + 1, Len(s)) = suffix

\* os.path.basename: what follows the last "/"
basename(p) ==
    LET slashes == {i \in 1..Len(p) : p[i] = "/"}
        last == IF slashes = {} THEN 0
                ELSE CHOOSE i \in slashes : \A j \in slashes : j <= i
    IN  Slice(p, last + 1, Len(p))

\* s.split(sep)[0]: what precedes the first sep
split_first(s, sep) ==
    LET at == {i \in 1..Len(s) : s[i] = sep}
        first == IF at = {} THEN Len(s) + 1
                 ELSE CHOOSE i \in at : \A j \in at : i <= j
    IN  Slice(s, 1, first - 1)

\* len(s.split(sep))
split_count(s, sep) == Cardinality({i \in 1..Len(s) : s[i] = sep}) + 1

\* int(s) of a string of digits
RECURSIVE int(_)
int(s) == IF s = <<>> THEN 0
          ELSE 10 * int(Slice(s, 1, Len(s) - 1)) + DigitVal(s[Len(s)])

\* str(n) of a natural number
RECURSIVE str(_)
str(n) == IF n < 10 THEN <<DigitChar(n)>>
          ELSE str(n \div 10) \o <<DigitChar(n % 10)>>

\* re.search(r"\d{4}", s): the start of the leftmost run of four digits, 0 for None
re_search_year(s) ==
    LET hits == {i \in 1..(Len(s) - 3) : \A k \in 0..3 : s[i + k] \in Digits}
    IN  IF hits = {} THEN 0 ELSE CHOOSE i \in hits : \A j \in hits : i <= j

CSV_EXT == <<".", "c", "s", "v">>

(***************************************************************************)
(* Cell texts and cell values.                                             *)
(***************************************************************************)
NULL == <<"N", "U", "L", "L">>
PRIVACY_SUPPRESSED ==
    <<"P", "r", "i", "v", "a", "c", "y", "S", "u", "p", "p", "r", "e", "s", "s", "e", "d">>
TRUE_TEXT == <<"T", "r", "u", "e">>
FALSE_TEXT == <<"F", "a", "l", "s", "e">>

\* "na_values" of to_dataframe_args, and the empty field, which read_csv
\* takes for missing by default
na_values == {NULL, PRIVACY_SUPPRESSED}
is_na(text) == text = <<>> \/ text \in na_values

NaN == <<"nan", <<>>>>
ERROR == <<"error", <<>>>>

all_digits(s) == \A i \in 1..Len(s) : s[i] \in Digits

\* a fraction without its trailing zeros
RECURSIVE strip_zeros(_)
strip_zeros(s) ==
    IF s # <<>> /\ s[Len(s)] = "0" THEN strip_zeros(Slice(s, 1, Len(s) - 1)) ELSE s

\* The float a decimal numeral denotes, named by its shortest text (the text
\* DataFrame.to_csv writes for it): "500" and "500.0" are both "500.0".
parse_float(text) ==
    LET ip == split_first(text, ".")
        fr == Slice(text, Len(ip) + 2, Len(text))
        ok == /\ ip # <<>>
              /\ all_digits(ip)
              /\ all_digits(fr)
              /\ (Len(ip) < Len(text) => text[Len(ip) + 1] = ".")
        f == strip_zeros(fr)
    IN  IF ok THEN <<"float64", str(int(ip)) \o <<".">> \o (IF f = <<>> THEN <<"0">> ELSE f)>>
        ELSE ERROR

\* read_csv's conversion of one field to the dtype declared for its column
convert(dtype, text) ==
    CASE dtype = "float64" -> IF is_na(text) THEN NaN ELSE parse_float(text)
      [] dtype = "bool_" -> IF is_na(text) THEN ERROR
                            ELSE IF text = TRUE_TEXT THEN <<"bool_", TRUE_TEXT>>
                            ELSE IF text = FALSE_TEXT THEN <<"bool_", FALSE_TEXT>>
                            ELSE ERROR
      [] OTHER -> IF is_na(text) THEN NaN ELSE <<"str", text>>

\* to_csv's text of one value: a missing value is the empty field
to_text(value) == IF value = NaN THEN <<>> ELSE value[2]

(***************************************************************************)
(* CollegeDocumentColumn and CollegeDocument                               *)
(***************************************************************************)
ACADEMIC_YEAR == "Academic Year"

get_including_columns ==
    {ACADEMIC_YEAR, "MD_EARN_WNE_P10", "CONTROL", "ST_FIPS",
     "SATVRMID", "SATMTMID", "SATWRMID", "ACTCMMID"}

NoMapping == <<"None">>

CollegeDocumentColumn(name, description, type, values_mapping) ==
    [column_name |-> name, description |-> description,
     column_type |-> type, values_mapping |-> values_mapping]

\* columns: a sequence of CollegeDocumentColumn; a later column of the same
\* name replaces an earlier one, and "Academic Year" is always added
CollegeDocument(columns) ==
    LET names == {columns[i].column_name : i \in 1..Len(columns)} \cup {ACADEMIC_YEAR}
    IN  [n \in names |->
            IF n = ACADEMIC_YEAR
            THEN CollegeDocumentColumn(ACADEMIC_YEAR, ACADEMIC_YEAR, "str", NoMapping)
            ELSE columns[CHOOSE i \in 1..Len(columns) :
                            /\ columns[i].column_name = n
                            /\ \A j \in (i + 1)..Len(columns) : columns[j].column_name # n]]

to_dataframe_args(document) ==
    [dtype |-> [c \in DOMAIN document |-> document[c].column_type],
     usecols |-> get_including_columns,
     na_values |-> na_values]

(***************************************************************************)
(* pandas: read_csv, to_csv, concat.  A csv file is <<"csv", t>> and a     *)
(* DataFrame is t, with t.columns a set of names and t.rows a sequence of  *)
(* functions from t.columns.                                               *)
(***************************************************************************)
Raised == [raised |-> TRUE, value |-> <<>>]
Returned(v) == [raised |-> FALSE, value |-> v]

EmptyFrame == [columns |-> {}, rows |-> <<>>]

\* The columns of the table t that usecols selects
selected_columns(t, args) == {c \in t.columns : c \in args.usecols}

\* The table t restricted to cols, each field converted to its column's dtype
converted(t, cols, args) ==
    [columns |-> cols,
     rows |-> [i \in 1..Len(t.rows) |->
                 [c \in cols |-> convert(args.dtype[c], t.rows[i][c])]]]

\* With no column selected the frame is empty; a field its column's dtype
\* cannot hold raises
checked(df) ==
    IF df.columns = {} THEN Returned(EmptyFrame)
    ELSE IF \E i \in 1..Len(df.rows) : \E c \in df.columns : df.rows[i][c] = ERROR
    THEN Raised
    ELSE Returned(df)

\* pd.read_csv(file, dtype=..., usecols=..., na_values=...); a file that is
\* not tabular raises
read_csv(file, args) ==
    IF file[1] # "csv" THEN Raised
    ELSE checked(converted(file[2], selected_columns(file[2], args), args))

\* df.to_csv(path, index=False)
to_csv(df) ==
    <<"csv", [columns |-> df.columns,
              rows |-> [i \in 1..Len(df.rows) |->
                          [c \in df.columns |-> to_text(df.rows[i][c])]]]>>

\* pd.concat(frames): the rows of every frame in turn, over the union of the
\* columns, a column a frame lacks being missing in its rows
RECURSIVE concat_rows(_, _)
concat_rows(frames, cols) ==
    IF frames = <<>> THEN <<>>
    ELSE LET f == Head(frames)
         IN  [i \in 1..Len(f.rows) |->
                [c \in cols |-> IF c \in f.columns THEN f.rows[i][c] ELSE NaN]]
             \o concat_rows(Tail(frames), cols)

\* A faulty concat, with join="inner": only the columns every frame has
concat_inner(frames) ==
    IF frames = <<>> THEN Raised
    ELSE LET cols == {c \in frames[1].columns : \A i \in 1..Len(frames) : c \in frames[i].columns}
         IN  Returned([columns |-> cols, rows |-> concat_rows(frames, cols)])

\* A faulty concat, followed by drop_duplicates over the columns but
\* "Academic Year": a row equal to an earlier one is dropped
concat_drop_duplicates(frames) ==
    IF frames = <<>> THEN Raised
    ELSE LET cols == UNION {frames[i].columns : i \in 1..Len(frames)}
             rows == concat_rows(frames, cols)
             kept == {i \in 1..Len(rows) :
                        \A j \in 1..(i - 1) :
                            \E c \in cols \ {ACADEMIC_YEAR} : rows[j][c] # rows[i][c]}
         IN  Returned([columns |-> cols,
                       rows |-> SelectSeq(rows, LAMBDA r : \E i \in kept : rows[i] = r)])

concat(frames) ==
    IF frames = <<>> THEN Raised
    ELSE LET cols == UNION {frames[i].columns : i \in 1..Len(frames)}
         IN  Returned([columns |-> cols, rows |-> concat_rows(frames, cols)])

(***************************************************************************)
(* Files: the cache directory is a function from file names to files, a    *)
(* zip archive is <<"zip", members>>, each member [filename, data].        *)
(***************************************************************************)
\* os.path.isfile(path)
has_cache_file(dsk, path) == path \in DOMAIN dsk

\* open(path, "w").write(file), creating or replacing the file
write_file(dsk, path, file) ==
    [n \in DOMAIN dsk \cup {path} |-> IF n = path THEN file ELSE dsk[n]]

\* The orders os.listdir may list the names S in
listdir_orders(S) ==
    {o \in [1..Cardinality(S) -> S] : \A i, j \in DOMAIN o : i # j => o[i] # o[j]}

\* What a load_cache or build_cache call did, besides returning or raising:
\* the cache directory it leaves, its downloads, its writes to the cache path,
\* the transient resources no scope of it released, and what it went through
Outcome(raised, value, dsk, n_download, n_write, unreleased, trace) ==
    [raised |-> raised, value |-> value, disk |-> dsk, n_download |-> n_download,
     n_write |-> n_write, unreleased |-> unreleased, trace |-> trace]

NoTrace == [extracted |-> <<>>, frames |-> <<>>]

\* What a load_cache that read r did: no download, no write, nothing opened
cache_outcome(r, dsk) == Outcome(r.raised, r.value, dsk, 0, 0, {}, NoTrace)

\* What remote_path serves when it cannot be reached, and a content that is
\* neither an archive nor a spreadsheet
Unreachable == <<"unreachable", <<>>>>
NotAFile == <<"bytes", <<>>>>

\* download_file(target, dest): requests.get(target), then dest.write(r.content)
download_file(target) == IF target = Unreachable THEN Raised ELSE Returned(target)

(***************************************************************************)
(* CollegeLoader                                                           *)
(***************************************************************************)
DATA_CSV == <<"d", "a", "t", "a", ".", "c", "s", "v">>

\* load_cache: pd.read_csv(path, **to_dataframe_args())
College_load_cache(document, dsk, path) ==
    IF has_cache_file(dsk, path)
    THEN cache_outcome(read_csv(dsk[path], to_dataframe_args(document)), dsk)
    ELSE cache_outcome(Raised, dsk)

\* A faulty renaming, with the begin year as the end year too
year_file_name_same_year(file_name) ==
    LET year_index == re_search_year(file_name)
        year == Slice(file_name, year_index, year_index + 3)
    IN  year \o <<"-">> \o year \o CSV_EXT

\* The file name a member is extracted under: its first run of four digits
\* as the begin year.  Only for names that hold such a run.
year_file_name(file_name) ==
    LET year_index == re_search_year(file_name)
        year == Slice(file_name, year_index, year_index + 3)
    IN  year \o <<"-">> \o str(int(year) + 1) \o CSV_EXT

\* The for loop of _download_raw_dataset over zip_file.infolist(), from member
\* k on: dir maps each extracted file name to the file and to the member it
\* came from.  A .csv member without a run of four digits raises, as
\* re.search returns None.
RECURSIVE extract_csv_members(_, _, _)
extract_csv_members(members, k, dir) ==
    IF k > Len(members) THEN Returned(dir)
    ELSE LET f == members[k]
             file_name == basename(f.filename)
         IN  IF file_name # <<>> /\ endswith(file_name, CSV_EXT)
             THEN IF re_search_year(file_name) = 0 THEN Raised
                  ELSE extract_csv_members(members, k + 1,
                           write_file(dir, year_file_name(file_name),
                                      [data |-> f.data, member |-> k]))
             ELSE extract_csv_members(members, k + 1, dir)

\* ZipFile(zip_dataset, "r"): the members, when the content is an archive
ZipFile(zip_dataset) ==
    IF ~zip_dataset.raised /\ zip_dataset.value[1] = "zip"
    THEN Returned(zip_dataset.value[2])
    ELSE Raised

\* The with block of _download_raw_dataset
extracted_csv(zip_file) ==
    IF zip_file.raised THEN Raised ELSE extract_csv_members(zip_file.value, 1, <<>>)

\* zip_dataset is a TemporaryFile no with statement holds: it is unreleased
\* on every exit of the function that opened it
leaving_zip_dataset(r) ==
    [raised |-> r.raised, value |-> r.value, unreleased |-> {"zip_dataset"}]

\* _download_raw_dataset
College_download_raw_dataset(target) ==
    leaving_zip_dataset(extracted_csv(ZipFile(download_file(target))))

\* df["Academic Year"] = academic_year
with_academic_year(df, academic_year) ==
    [columns |-> df.columns \cup {ACADEMIC_YEAR},
     rows |-> [i \in 1..Len(df.rows) |->
                 [c \in df.columns \cup {ACADEMIC_YEAR} |->
                     IF c = ACADEMIC_YEAR THEN <<"str", academic_year>>
                     ELSE df.rows[i][c]]]]

\* The frame r read from an extracted file, stamped; the stem must split at
\* "-" into begin_year and end_year
stamped(r, academic_year) ==
    IF r.raised \/ split_count(academic_year, "-") # 2 THEN Raised
    ELSE Returned(with_academic_year(r.value, academic_year))

\* _process_raw_dataset of the extracted file called name
College_process_raw_dataset(name, file, dataframe_args) ==
    stamped(read_csv(file, dataframe_args), split_first(basename(name), "."))

\* The generator of _combine_raw_dataset: every listed file, processed
process_all(dir, names, dataframe_properties) ==
    [i \in 1..Len(names) |->
        [member |-> dir[names[i]].member,
         result |-> College_process_raw_dataset(names[i], dir[names[i]].data,
                                                dataframe_properties)]]

\* pd.concat over the generator: a file that fails to process fails it
concat_processed(processed) ==
    IF \E i \in 1..Len(processed) : processed[i].result.raised THEN Raised
    ELSE concat([i \in 1..Len(processed) |-> processed[i].result.value])

combined(processed, df) ==
    [raised |-> df.raised, value |-> df.value, frames |-> processed]

\* The .csv files of the directory, in the order os.listdir lists them
listed_csv(order) == SelectSeq(order, LAMBDA f : endswith(f, CSV_EXT))

combine_processed(processed) == combined(processed, concat_processed(processed))

\* _combine_raw_dataset of the directory dir, which os.listdir lists as order
College_combine_raw_dataset(document, dir, order) ==
    combine_processed(process_all(dir, listed_csv(order), to_dataframe_args(document)))

\* The end of build_cache: df.to_csv(path, index=False) and return df
persisted(dl, df, dsk, path) ==
    IF df.raised
    THEN Outcome(TRUE, <<>>, dsk, 1, 0, dl.unreleased,
                 [extracted |-> dl.value, frames |-> df.frames])
    ELSE Outcome(FALSE, df.value, write_file(dsk, path, to_csv(df.value)), 1, 1,
                 dl.unreleased, [extracted |-> dl.value, frames |-> df.frames])

\* build_cache once _download_raw_dataset has returned or raised
built_from(dl, document, order, dsk, path) ==
    IF dl.raised THEN Outcome(TRUE, <<>>, dsk, 1, 0, dl.unreleased, NoTrace)
    ELSE persisted(dl, College_combine_raw_dataset(document, dl.value, order), dsk, path)

\* build_cache: the TemporaryDirectory is released by its with statement
College_build_cache(document, target, order, dsk, path) ==
    built_from(College_download_raw_dataset(target), document, order, dsk, path)

(***************************************************************************)
(* CollegeDocumentLoader.  A sheet is a sequence of rows, each a record of *)
(* cells; a cell is <<>> when blank and <<v>> when it holds v.             *)
(***************************************************************************)
DATA_META == <<"d", "a", "t", "a", ".", "m", "e", "t", "a">>

SheetColumns == {"VARIABLE NAME", "NAME OF DATA ELEMENT", "API data type", "VALUE", "LABEL"}

\* df.fillna(method="ffill"): a blank cell takes the cell above it, once filled
RECURSIVE ffill(_)
ffill(rows) ==
    IF Len(rows) <= 1 THEN rows
    ELSE LET above == ffill(Slice(rows, 1, Len(rows) - 1))
             last == rows[Len(rows)]
         IN  Append(above, [c \in SheetColumns |->
                               IF last[c] = <<>> THEN above[Len(above)][c] ELSE last[c]])

\* _raw_type_to_numpy_type of a cell: a blank cell is NaN, which is truthy
\* and no key of the converter
raw_type_to_numpy_type(dataset_type) ==
    IF dataset_type = <<>> THEN "str"
    ELSE CASE dataset_type[1] \in {"float", "integer"} -> "float64"
           [] dataset_type[1] = "boolean" -> "bool_"
           [] OTHER -> "str"

\* col_detail.loc[:, ["VALUE", "LABEL"]].dropna().set_index("VALUE")
\* .to_dict()["LABEL"]: of the rows that hold both, the last label of each value
values_mapping_of(col_detail) ==
    LET both == SelectSeq(col_detail, LAMBDA r : r["VALUE"] # <<>> /\ r["LABEL"] # <<>>)
        keys == {both[i]["VALUE"][1] : i \in 1..Len(both)}
    IN  <<"dict", [k \in keys |->
                     both[CHOOSE i \in 1..Len(both) :
                            /\ both[i]["VALUE"][1] = k
                            /\ \A j \in (i + 1)..Len(both) : both[j]["VALUE"][1] # k]
                         ["LABEL"][1]]>>

\* str(cell): the text of a cell, "nan" of a blank one
str_of_cell(cell) == IF cell = <<>> THEN "nan" ELSE cell[1]

\* The names of S as a sequence, in the order groupby iterates its groups
RECURSIVE sorted_names(_, _)
sorted_names(S, order) ==
    IF order = <<>> THEN <<>>
    ELSE (IF Head(order) \in S THEN <<Head(order)>> ELSE <<>>) \o sorted_names(S, Tail(order))

\* The variable names of the model's sheets, sorted
VariableOrder == <<"CONTROL", "UNITID">>

\* _parse_raw_college_document of the sheet "data_dictionary"
parse_raw_college_document(sheet) ==
    LET df == ffill(sheet)
        named == SelectSeq(df, LAMBDA r : r["VARIABLE NAME"] # <<>>)
        groups == sorted_names({named[i]["VARIABLE NAME"][1] : i \in 1..Len(named)},
                               VariableOrder)
        included == SelectSeq(groups, LAMBDA col : col \in get_including_columns)
        detail(col) == SelectSeq(named, LAMBDA r : r["VARIABLE NAME"][1] = col)
    IN  CollegeDocument(
            [i \in 1..Len(included) |->
                LET col_detail == detail(included[i])
                IN  CollegeDocumentColumn(
                        included[i],
                        str_of_cell(col_detail[1]["NAME OF DATA ELEMENT"]),
                        raw_type_to_numpy_type(col_detail[1]["API data type"]),
                        values_mapping_of(col_detail))])

\* pd.read_excel(raw_path, sheet_name="data_dictionary")
read_excel(raw) ==
    IF ~raw.raised /\ raw.value[1] = "xlsx" THEN Returned(raw.value[2]) ELSE Raised

\* pickle writes a class as the name it is imported by, and finds it again
pickle_global(type) ==
    CASE type = "float64" -> "numpy.float64"
      [] type = "bool_" -> "numpy.bool_"
      [] type = "str" -> "builtins.str"

find_class(name) ==
    CASE name = "numpy.float64" -> "float64"
      [] name = "numpy.bool_" -> "bool_"
      [] name = "builtins.str" -> "str"

\* A set of keys as a sequence (a dict is written item by item)
RECURSIVE items_of(_)
items_of(S) ==
    IF S = {} THEN <<>>
    ELSE LET k == CHOOSE x \in S : TRUE IN <<k>> \o items_of(S \ {k})

\* pickle.dump(college_document, f): the columns dict, item by item, each
\* column by its attributes
pickle_dump(document) ==
    LET names == items_of(DOMAIN document)
        dump_mapping(m) ==
            IF m = NoMapping THEN <<"N">>
            ELSE LET ks == items_of(DOMAIN m[2])
                 IN  <<"}", [i \in 1..Len(ks) |-> <<ks[i], m[2][ks[i]]>>]>>
    IN  <<"pickle",
          [i \in 1..Len(names) |->
              LET column == document[names[i]]
              IN  [key |-> names[i],
                   _name |-> column.column_name,
                   _type |-> pickle_global(column.column_type),
                   _values_mapping |-> dump_mapping(column.values_mapping),
                   _description |-> column.description]]>>

\* pickle.load(f)
pickle_load(file) ==
    IF file[1] # "pickle" THEN Raised
    ELSE LET items == file[2]
             load_mapping(m) ==
                 IF m[1] = "N" THEN NoMapping
                 ELSE <<"dict", [k \in {m[2][i][1] : i \in 1..Len(m[2])} |->
                                   LET i == CHOOSE i \in 1..Len(m[2]) : m[2][i][1] = k
                                   IN  m[2][i][2]]>>
         IN  Returned([n \in {items[i].key : i \in 1..Len(items)} |->
                          LET item == items[CHOOSE i \in 1..Len(items) : items[i].key = n]
                          IN  [column_name |-> item._name,
                               description |-> item._description,
                               column_type |-> find_class(item._type),
                               values_mapping |-> load_mapping(item._values_mapping)]])

\* load_cache: pickle.load of the file at path
Document_load_cache(dsk, path) ==
    IF has_cache_file(dsk, path) THEN cache_outcome(pickle_load(dsk[path]), dsk)
    ELSE cache_outcome(Raised, dsk)

\* _save_college_document, and build_cache's return
saved(document, dsk, path) ==
    Outcome(FALSE, document, write_file(dsk, path, pickle_dump(document)), 1, 1, {},
            NoTrace)

parsed_and_saved(sheet, dsk, path) ==
    IF sheet.raised THEN Outcome(TRUE, <<>>, dsk, 1, 0, {}, NoTrace)
    ELSE saved(parse_raw_college_document(sheet.value), dsk, path)

\* build_cache: the TemporaryFile is released by its with statement
Document_build_cache(target, dsk, path) ==
    parsed_and_saved(read_excel(download_file(target)), dsk, path)

(***************************************************************************)
(* GeoLoader.  The cache path is a .shp file; the reader needs its .shx    *)
(* beside it.                                                              *)
(***************************************************************************)
B_SHP == <<"b", ".", "s", "h", "p">>
B_SHX == <<"b", ".", "s", "h", "x">>

\* ZipInfo.is_dir()
is_dir(f) == f.filename # <<>> /\ f.filename[Len(f.filename)] = "/"

\* gpd.read_file(path): the table of the shapefile at path
read_file(dsk, path) ==
    IF /\ path \in DOMAIN dsk /\ dsk[path][1] = "shp"
       /\ B_SHX \in DOMAIN dsk /\ dsk[B_SHX][1] = "shx"
    THEN Returned([geometry |-> dsk[path][2], index |-> dsk[B_SHX][2]])
    ELSE Raised

\* A faulty extraction, without f.filename = os.path.basename(f.filename)
RECURSIVE extract_nested(_, _, _)
extract_nested(members, k, dest) ==
    IF k > Len(members) THEN dest
    ELSE IF ~is_dir(members[k])
         THEN extract_nested(members, k + 1,
                             write_file(dest, members[k].filename, members[k].data))
         ELSE extract_nested(members, k + 1, dest)

\* The for loop of _download_geodata over zip_file.infolist(), from member k
\* on, extracting into dest
RECURSIVE extract_flat(_, _, _)
extract_flat(members, k, dest) ==
    IF k > Len(members) THEN dest
    ELSE LET f == members[k]
         IN  IF ~is_dir(f)
             THEN extract_flat(members, k + 1, write_file(dest, basename(f.filename), f.data))
             ELSE extract_flat(members, k + 1, dest)

\* The with block of _download_geodata
extracted_flat(zip_file, dest) ==
    IF zip_file.raised THEN [raised |-> TRUE, value |-> dest]
    ELSE [raised |-> FALSE, value |-> extract_flat(zip_file.value, 1, dest)]

\* _download_geodata
Geo_download_geodata(target, dest) ==
    leaving_zip_dataset(extracted_flat(ZipFile(download_file(target)), dest))

\* load_cache: gpd.read_file(path)
Geo_load_cache(dsk, path) == cache_outcome(read_file(dsk, path), dsk)

\* The writes of an extraction to the file path
writes_to(zip_file, path) ==
    IF zip_file.raised THEN 0
    ELSE Cardinality({k \in 1..Len(zip_file.value) :
                         /\ ~is_dir(zip_file.value[k])
                         /\ basename(zip_file.value[k].filename) = path})

\* The end of build_cache: gpd.read_file(path)
read_back(dl, r, n_write) ==
    IF dl.raised THEN Outcome(TRUE, <<>>, dl.value, 1, 0, dl.unreleased, NoTrace)
    ELSE Outcome(r.raised, r.value, dl.value, 1, n_write, dl.unreleased, NoTrace)

geo_built_from(dl, path, n_write) == read_back(dl, read_file(dl.value, path), n_write)

\* build_cache: the TemporaryDirectory is released by its with statement; the
\* members are extracted into the directory of path, then read back
Geo_build_cache(target, dsk, path) ==
    geo_built_from(Geo_download_geodata(target, dsk), path,
                   writes_to(ZipFile(download_file(target)), path))

(***************************************************************************)
(* CacheLoader.load                                                        *)
(***************************************************************************)
LOG_LOAD == "Loading"
LOG_FOUND == "Cache found"
LOG_NOT_FOUND == "Cache not found"
LOG_BUILT == "Done caching"

\* A faulty test, which takes an artifact the loader was told not to use
takes_cache_without_use_cache(self_use_cache, dsk, path) == has_cache_file(dsk, path)

\* Whether load takes the cached artifact
takes_cache(self_use_cache, dsk, path) == self_use_cache /\ has_cache_file(dsk, path)

\* A faulty load, which reports the cache built when build_cache raised
log_lines_built_after_failure(hit, raised) ==
    <<LOG_LOAD>> \o (IF hit THEN <<LOG_FOUND>> ELSE <<LOG_NOT_FOUND, LOG_BUILT>>)

\* The status lines load prints, in order, on a hit or a miss whose
\* load_cache or build_cache raised or returned
log_lines(hit, raised) ==
    <<LOG_LOAD>> \o
    (IF hit THEN <<LOG_FOUND>>
     ELSE <<LOG_NOT_FOUND>> \o (IF raised THEN <<>> ELSE <<LOG_BUILT>>))

\* The record of a load(path) call that had the file or not, took the cache
\* or not, and whose load_cache or build_cache did o; and the disk it leaves
loaded(had_file, hit, o) ==
    [call |-> [had_file |-> had_file,
               hit |-> hit,
               n_load_cache |-> IF hit THEN 1 ELSE 0,
               n_build_cache |-> IF hit THEN 0 ELSE 1,
               n_download |-> o.n_download,
               n_write |-> o.n_write,
               raised |-> o.raised,
               result |-> IF o.raised THEN <<>> ELSE <<o.value>>,
               unreleased |-> o.unreleased,
               trace |-> o.trace,
               log |-> log_lines(hit, o.raised)],
     disk |-> o.disk]

\* A faulty load, which rebuilds when load_cache raises
load_with_fallback(self_use_cache, dsk, path, cached, built) ==
    IF takes_cache(self_use_cache, dsk, path) /\ ~cached.raised
    THEN loaded(has_cache_file(dsk, path), TRUE, cached)
    ELSE loaded(has_cache_file(dsk, path), FALSE, built)

\* load(path), with cached what load_cache(path) does and built what
\* build_cache(path) does
load(self_use_cache, dsk, path, cached, built) ==
    IF takes_cache(self_use_cache, dsk, path)
    THEN loaded(has_cache_file(dsk, path), TRUE, cached)
    ELSE loaded(has_cache_file(dsk, path), FALSE, built)

(***************************************************************************)
(* The inputs of the panel loader: the archive at remote_path and the      *)
(* catalog the loader was constructed with.                                *)
(***************************************************************************)
SeqsUpTo(S, n) == UNION {[1..k -> S] : k \in 0..n}

\* "a/2013.csv": in a subdirectory of the archive
NAME_2013 == <<"a", "/", "2", "0", "1", "3", ".", "c", "s", "v">>
\* "m20134.csv": five digits, the first four being 2013 again
NAME_20134 == <<"m", "2", "0", "1", "3", "4", ".", "c", "s", "v">>
\* "9999.csv"
NAME_9999 == <<"9", "9", "9", "9", ".", "c", "s", "v">>
\* "2013/r.csv": four digits in the directory only
NAME_NO_YEAR == <<"2", "0", "1", "3", "/", "r", ".", "c", "s", "v">>
\* "2014.txt": not tabular
NAME_TXT == <<"2", "0", "1", "4", ".", "t", "x", "t">>

\* Raw tables: with a column outside the allow-list, with missing values,
\* with a Boolean text, and with single columns
TABLE_CONTROL_UNITID ==
    [columns |-> {"CONTROL", "UNITID"},
     rows |-> <<[CONTROL |-> <<"1">>, UNITID |-> <<"7">>]>>]
TABLE_CONTROL_SAT ==
    [columns |-> {"CONTROL", "SATVRMID"},
     rows |-> <<[CONTROL |-> NULL, SATVRMID |-> <<"5", "0", "0">>],
                [CONTROL |-> <<"2">>, SATVRMID |-> PRIVACY_SUPPRESSED]>>]
TABLE_CONTROL_TRUE == [columns |-> {"CONTROL"}, rows |-> <<[CONTROL |-> TRUE_TEXT]>>]
TABLE_SAT == [columns |-> {"SATVRMID"}, rows |-> <<[SATVRMID |-> <<"5", "0", "0">>]>>]
TABLE_UNITID == [columns |-> {"UNITID"}, rows |-> <<[UNITID |-> <<"7">>]>>]
TABLE_NO_ROWS == [columns |-> {"CONTROL"}, rows |-> <<>>]

RawTables ==
    {TABLE_CONTROL_UNITID, TABLE_CONTROL_SAT, TABLE_CONTROL_TRUE, TABLE_SAT,
     TABLE_UNITID, TABLE_NO_ROWS}

CollegeMembers ==
    {[filename |-> NAME_2013, data |-> <<"csv", t>>] : t \in RawTables}
    \cup {[filename |-> NAME_9999, data |-> <<"csv", t>>] :
             t \in {TABLE_CONTROL_SAT, TABLE_SAT}}
    \cup {[filename |-> NAME_20134,
           data |-> <<"csv", [columns |-> {"CONTROL", "UNITID"},
                              rows |-> <<[CONTROL |-> <<"3">>, UNITID |-> <<"8">>]>>]>>],
          [filename |-> NAME_NO_YEAR, data |-> <<"csv", TABLE_NO_ROWS>>],
          [filename |-> NAME_TXT, data |-> NotAFile]}

\* What remote_path serves
CollegeRemotes ==
    {<<"zip", ms>> : ms \in SeqsUpTo(CollegeMembers, MaxMembers)}
    \cup {NotAFile, Unreachable}

Dtypes == {"float64", "bool_", "str"}

\* A catalog describing every allow-listed column, CONTROL with dtype t
CatalogWith(t) ==
    CollegeDocument(
        <<CollegeDocumentColumn("CONTROL", "Control", t, <<"dict", <<>>>>),
          CollegeDocumentColumn("MD_EARN_WNE_P10", "Earnings", "float64", <<"dict", <<>>>>),
          CollegeDocumentColumn("ST_FIPS", "State", "float64", <<"dict", <<>>>>),
          CollegeDocumentColumn("SATVRMID", "Reading", "float64", <<"dict", <<>>>>),
          CollegeDocumentColumn("SATMTMID", "Math", "float64", <<"dict", <<>>>>),
          CollegeDocumentColumn("SATWRMID", "Writing", "float64", <<"dict", <<>>>>),
          CollegeDocumentColumn("ACTCMMID", "ACT", "float64", <<"dict", <<>>>>)>>)

Catalogs == {CatalogWith(t) : t \in Dtypes}

(***************************************************************************)
(* The state machine: a loader is constructed, then load(path) is called.  *)
(***************************************************************************)
InitDataset ==
    /\ loader = "dataset"
    /\ use_cache \in BOOLEAN
    /\ remote \in CollegeRemotes
    /\ college_document \in Catalogs
    /\ disk = <<>>
    /\ calls = <<>>

\* CollegeLoader(college_document).load(path)
LoadDataset ==
    /\ loader = "dataset"
    /\ Len(calls) < MaxLoads
    /\ \E order \in listdir_orders(DOMAIN College_download_raw_dataset(remote).value) :
         \E c \in {load(use_cache, disk, DATA_CSV,
                        College_load_cache(college_document, disk, DATA_CSV),
                        College_build_cache(college_document, remote, order, disk,
                                            DATA_CSV))} :
            /\ calls' = Append(calls, c.call)
            /\ disk' = c.disk
    /\ UNCHANGED <<loader, use_cache, remote, college_document>>

(***************************************************************************)
(* The inputs of the schema loader: the data dictionary at remote_path.    *)
(* A row that names a variable starts its block and holds its description  *)
(* and, or not, its type; the rows under it hold further values only.      *)
(***************************************************************************)
V1 == <<"1", ".", "0">>
V2 == <<"2", ".", "0">>

ValueLabels == {<<<<>>, <<>>>>, <<<<V1>>, <<"Public">>>>, <<<<V2>>, <<>>>>}
TypeCells == {<<>>, <<"integer">>, <<"boolean">>, <<"string">>}

SheetRow(name, description, type, vl) ==
    [c \in SheetColumns |->
        CASE c = "VARIABLE NAME" -> name
          [] c = "NAME OF DATA ELEMENT" -> description
          [] c = "API data type" -> type
          [] c = "VALUE" -> vl[1]
          [] c = "LABEL" -> vl[2]]

\* The rows that start the block of CONTROL, those that start the block of
\* UNITID, which is not allow-listed, and the rows that continue a block
SheetRows ==
    {SheetRow(<<"CONTROL">>, <<"Control of institution">>, t, vl) :
        t \in TypeCells, vl \in ValueLabels}
    \cup {SheetRow(<<"UNITID">>, <<"Unit ID">>, <<"integer">>, vl) :
             vl \in {<<<<>>, <<>>>>, <<<<V1>>, <<"Public">>>>}}
    \cup {SheetRow(<<>>, <<>>, <<>>, vl) : vl \in ValueLabels}

DocumentRemotes ==
    {<<"xlsx", rows>> : rows \in SeqsUpTo(SheetRows, MaxSheetRows)}
    \cup {NotAFile, Unreachable}

InitDocument ==
    /\ loader = "CollegeDocument"
    /\ use_cache \in BOOLEAN
    /\ remote \in DocumentRemotes
    /\ college_document = CollegeDocument(<<>>)
    /\ disk \in {<<>>, write_file(<<>>, DATA_META, NotAFile)}
    /\ calls = <<>>

\* CollegeDocumentLoader().load(path)
LoadDocument ==
    /\ loader = "CollegeDocument"
    /\ Len(calls) < MaxLoads
    /\ \E c \in {load(use_cache, disk, DATA_META,
                      Document_load_cache(disk, DATA_META),
                      Document_build_cache(remote, disk, DATA_META))} :
          /\ calls' = Append(calls, c.call)
          /\ disk' = c.disk
    /\ UNCHANGED <<loader, use_cache, remote, college_document>>

(***************************************************************************)
(* The inputs of the geospatial loader: the archive at remote_path and     *)
(* what the cache directory holds before.                                  *)
(***************************************************************************)
\* "s/b.shp" and "b.shp" share a basename; "s/" is a directory entry
GEO_SUB_SHP == <<"s", "/", "b", ".", "s", "h", "p">>
GEO_TOP_SHP == <<"b", ".", "s", "h", "p">>
GEO_SUB_SHX == <<"o", "/", "b", ".", "s", "h", "x">>
GEO_DIR == <<"s", "/">>

GeoMembers ==
    {[filename |-> n, data |-> <<"shp", d>>] : n \in {GEO_SUB_SHP, GEO_TOP_SHP}, d \in {"A", "B"}}
    \cup {[filename |-> GEO_SUB_SHX, data |-> <<"shx", "A">>],
          [filename |-> GEO_DIR, data |-> NotAFile]}

GeoRemotes ==
    {<<"zip", ms>> : ms \in SeqsUpTo(GeoMembers, MaxMembers + 1)}
    \cup {NotAFile, Unreachable}

InitGeodata ==
    /\ loader = "geodata"
    /\ use_cache \in BOOLEAN
    /\ remote \in GeoRemotes
    /\ college_document = CollegeDocument(<<>>)
    /\ disk \in {<<>>, write_file(<<>>, B_SHP, <<"shp", "Z">>)}
    /\ calls = <<>>

\* GeoLoader().load(path)
LoadGeodata ==
    /\ loader = "geodata"
    /\ Len(calls) < MaxLoads
    /\ \E c \in {load(use_cache, disk, B_SHP,
                      Geo_load_cache(disk, B_SHP),
                      Geo_build_cache(remote, disk, B_SHP))} :
          /\ calls' = Append(calls, c.call)
          /\ disk' = c.disk
    /\ UNCHANGED <<loader, use_cache, remote, college_document>>

Init == InitDocument \/ InitDataset \/ InitGeodata

Next == LoadDocument \/ LoadDataset \/ LoadGeodata

Spec == Init /\ [][Next]_vars

(***************************************************************************)
(* main.py: the two places that decode a raw value through a column's      *)
(* values_mapping.  The keys of a values_mapping are the numbers of the     *)
(* VALUE column, each named by its shortest text.                          *)
(***************************************************************************)
MaxCalls == 2

\* dtype(l): the text l as a value of the column's type
cast(dtype, l) ==
    CASE dtype = "float64" -> parse_float(l)
      [] dtype = "bool_" -> <<"bool_", IF l = <<>> THEN FALSE_TEXT ELSE TRUE_TEXT>>
      [] OTHER -> <<"str", l>>

\* The key of a values_mapping a value is equal to, "" for none: True is
\* equal to 1.0 and False to 0.0, a str to no number
key_of(value) ==
    CASE value[1] = "float64" -> value[2]
      [] value[1] = "bool_" -> IF value[2] = TRUE_TEXT THEN <<"1", ".", "0">>
                               ELSE <<"0", ".", "0">>
      [] OTHER -> <<>>

\* values_mapping[value]: raises for a value that is no key, and for a
\* values_mapping of None
getitem(values_mapping, value) ==
    IF values_mapping = NoMapping \/ value = ERROR THEN Raised
    ELSE IF key_of(value) \in DOMAIN values_mapping[2]
    THEN Returned(values_mapping[2][key_of(value)])
    ELSE Raised

\* The list comprehension of replace_legend_value_mappings
legend_labels(col_documentation, legends) ==
    [i \in 1..(Len(legends) - 1) |->
        getitem(col_documentation.values_mapping,
                cast(col_documentation.column_type, legends[i + 1]))]

described(col_documentation, labels) ==
    IF \E i \in 1..Len(labels) : labels[i].raised THEN Raised
    ELSE Returned(<<col_documentation.description>>
                  \o [i \in 1..Len(labels) |-> labels[i].value])

\* replace_legend_value_mappings(legends, documentation): legends[0] names
\* the column, the rest are its raw values as the legend shows them
replace_legend_value_mappings(legends, documentation) ==
    IF legends[1] \notin DOMAIN documentation THEN Raised
    ELSE described(documentation[legends[1]],
                   legend_labels(documentation[legends[1]], legends))

\* Series.map(values_mapping) of one value: a value that is no key is NaN
map(values_mapping, value) ==
    IF value # NaN /\ key_of(value) \in DOMAIN values_mapping[2]
    THEN <<"str", values_mapping[2][key_of(value)]>>
    ELSE NaN

\* The mean of the not missing values of column c in rows, as <<sum, count>>;
\* the values are whole numbers
RECURSIVE sum_of(_, _)
sum_of(rows, c) ==
    IF rows = <<>> THEN 0
    ELSE int(split_first(Head(rows)[c][2], ".")) + sum_of(Tail(rows), c)

mean(rows, c) ==
    LET present == SelectSeq(rows, LAMBDA r : r[c] # NaN)
    IN  IF present = <<>> THEN NaN ELSE <<"mean", <<sum_of(present, c), Len(present)>>>>

\* data.groupby("ST_FIPS", as_index=False).mean(): a row for each not
\* missing ST_FIPS
groupby_mean(data) ==
    LET keys == {data.rows[i]["ST_FIPS"] : i \in 1..Len(data.rows)} \ {NaN}
    IN  {[ST_FIPS |-> k,
          MD_EARN_WNE_P10 |->
              mean(SelectSeq(data.rows, LAMBDA r : r["ST_FIPS"] = k), "MD_EARN_WNE_P10")] :
         k \in keys}

\* mean_per_state["ST_FIPS"].map(documentation_state.values_mapping)
mapped(mean_per_state, values_mapping) ==
    {[raw |-> r.ST_FIPS, ST_FIPS |-> map(values_mapping, r.ST_FIPS),
      MD_EARN_WNE_P10 |-> r.MD_EARN_WNE_P10] : r \in mean_per_state}

\* geodata.merge(mean_per_state, how="left", left_on="name", right_on="ST_FIPS"):
\* for each state the rows of its name, one row of missing values for none
merge(geodata, mean_per_state) ==
    Returned([decoded |-> mean_per_state,
              rows |-> [name \in geodata |->
                          {r.MD_EARN_WNE_P10 : r \in {m \in mean_per_state :
                                                         m.ST_FIPS = <<"str", name>>}}]])

\* process_data_p2(data, documentation, geodata)
process_data_p2(data, documentation, geodata) ==
    IF "ST_FIPS" \notin DOMAIN documentation \/ "ST_FIPS" \notin data.columns THEN Raised
    ELSE IF documentation["ST_FIPS"].values_mapping = NoMapping THEN Raised
    ELSE merge(geodata, mapped(groupby_mean(data), documentation["ST_FIPS"].values_mapping))

(***************************************************************************)
(* The inputs of main.py: a catalog, a panel and the legend of a plot.     *)
(***************************************************************************)
V3 == <<"3", ".", "0">>

StateNames == {"Alabama", "Alaska"}

ControlMapping == <<"dict", (V1 :> "Public") @@ (V2 :> "Private")>>

StateMappings ==
    {<<"dict", <<>>>>, <<"dict", (V1 :> "Alabama")>>,
     <<"dict", (V1 :> "Alabama") @@ (V2 :> "Alaska")>>}

MainCatalogs ==
    {CollegeDocument(
        <<CollegeDocumentColumn("CONTROL", "Control", t, ControlMapping),
          CollegeDocumentColumn("ST_FIPS", "State", "float64", m)>>) :
     t \in {"float64", "str"}, m \in StateMappings}

PanelRows ==
    {[ST_FIPS |-> st, MD_EARN_WNE_P10 |-> e] :
        st \in {<<"float64", V1>>, <<"float64", V2>>, NaN},
        e \in {<<"float64", V1>>, <<"float64", V3>>}}

Panels ==
    {[columns |-> {"ST_FIPS", "MD_EARN_WNE_P10"}, rows |-> rows] :
        rows \in SeqsUpTo(PanelRows, MaxCalls)}

Legends ==
    {<<n>> \o ls : n \in {"CONTROL", "UNITID"},
                   ls \in SeqsUpTo({<<"1">>, V3}, MaxCalls)}

InitMain ==
    /\ loader = "main"
    /\ use_cache = TRUE
    /\ remote \in Panels
    /\ college_document \in MainCatalogs
    /\ disk = <<>>
    /\ calls = <<>>

\* plot_p1's call of replace_legend_value_mappings
ReplaceLegendValueMappings ==
    /\ loader = "main"
    /\ Len(calls) < MaxCalls
    /\ \E legends \in Legends :
         \E r \in {replace_legend_value_mappings(legends, college_document)} :
            calls' = Append(calls, [op |-> "replace_legend_value_mappings",
                                    legends |-> legends,
                                    raised |-> r.raised, result |-> r.value])
    /\ UNCHANGED <<loader, use_cache, remote, college_document, disk>>

\* plot_p2's call of process_data_p2
ProcessDataP2 ==
    /\ loader = "main"
    /\ Len(calls) < MaxCalls
    /\ \E r \in {process_data_p2(remote, college_document, StateNames)} :
          calls' = Append(calls, [op |-> "process_data_p2", legends |-> <<>>,
                                  raised |-> r.raised, result |-> r.value])
    /\ UNCHANGED <<loader, use_cache, remote, college_document, disk>>

NextMain == ReplaceLegendValueMappings \/ ProcessDataP2

SpecMain == InitMain /\ [][NextMain]_vars

(***************************************************************************)
(* main.py: process_data_p3.  A score percentage is the exact quotient     *)
(* <<"ratio", <<numerator, denominator>>>>; the scores are whole numbers.  *)
(***************************************************************************)
MaxRows == 2

SAT_FULL == 2400
ACT_FULL == 36

P3_COLUMNS == {"MD_EARN_WNE_P10", "SATVRMID", "SATMTMID", "SATWRMID", "ACTCMMID"}

\* The whole number a float64 value holds
number(value) == int(split_first(value[2], "."))

\* A faulty dropna, with how="all": only the rows missing every field go
dropna_how_all(rows, cols) ==
    SelectSeq(rows, LAMBDA r : \E c \in cols : r[c] # NaN)

\* data[cols].dropna(): the columns cols of the rows that miss none of them
dropna(rows, cols) ==
    SelectSeq([i \in 1..Len(rows) |-> [c \in cols |-> rows[i][c]]],
              LAMBDA r : \A c \in cols : r[c] # NaN)

\* d["SAT_SCORE_%"] = ...; d["ACT_SCORE_%"] = ...
with_scores(d) ==
    [columns |-> P3_COLUMNS \cup {"SAT_SCORE_%", "ACT_SCORE_%"},
     rows |-> [i \in 1..Len(d) |->
                 [c \in P3_COLUMNS \cup {"SAT_SCORE_%", "ACT_SCORE_%"} |->
                     CASE c = "SAT_SCORE_%" ->
                            <<"ratio", <<number(d[i]["SATVRMID"]) + number(d[i]["SATMTMID"])
                                           + number(d[i]["SATWRMID"]), SAT_FULL>>>>
                       [] c = "ACT_SCORE_%" ->
                            <<"ratio", <<number(d[i]["ACTCMMID"]), ACT_FULL>>>>
                       [] OTHER -> d[i][c]]]]

\* process_data_p3(data): selecting a column data does not have raises
process_data_p3(data) ==
    IF ~(P3_COLUMNS \subseteq data.columns) THEN Raised
    ELSE Returned(with_scores(dropna(data.rows, P3_COLUMNS)))

(***************************************************************************)
(* The inputs of process_data_p3: panels whose rows have or miss each of   *)
(* the five fields, and a panel without the column ACTCMMID.               *)
(***************************************************************************)
F500 == <<"float64", <<"5", "0", "0", ".", "0">>>>
F13 == <<"float64", <<"1", "3", ".", "0">>>>
F36 == <<"float64", <<"3", "6", ".", "0">>>>

P3Rows ==
    {[MD_EARN_WNE_P10 |-> e, SATVRMID |-> vr, SATMTMID |-> mt, SATWRMID |-> wr,
      ACTCMMID |-> act, CONTROL |-> <<"float64", V1>>] :
        e \in {<<"float64", V1>>, NaN}, vr \in {F500, NaN}, mt \in {F500, NaN},
        wr \in {F500, NaN}, act \in {F13, NaN}}
    \cup {[MD_EARN_WNE_P10 |-> <<"float64", V3>>, SATVRMID |-> F13, SATMTMID |-> F36,
           SATWRMID |-> F500, ACTCMMID |-> F36, CONTROL |-> NaN]}

P3Panels ==
    {[columns |-> P3_COLUMNS \cup {"CONTROL"}, rows |-> rows] :
        rows \in SeqsUpTo(P3Rows, MaxRows)}
    \cup {[columns |-> {"MD_EARN_WNE_P10", "SATVRMID", "SATMTMID", "SATWRMID"},
           rows |-> <<[MD_EARN_WNE_P10 |-> <<"float64", V1>>, SATVRMID |-> F500,
                       SATMTMID |-> F500, SATWRMID |-> F500]>>]}

InitP3 ==
    /\ loader = "main"
    /\ use_cache = TRUE
    /\ remote \in P3Panels
    /\ college_document = CollegeDocument(<<>>)
    /\ disk = <<>>
    /\ calls = <<>>

\* plot_p3's call of process_data_p3
ProcessDataP3 ==
    /\ loader = "main"
    /\ Len(calls) < MaxCalls
    /\ \E r \in {process_data_p3(remote)} :
          calls' = Append(calls, [op |-> "process_data_p3", legends |-> <<>>,
                                  raised |-> r.raised, result |-> r.value])
    /\ UNCHANGED <<loader, use_cache, remote, college_document, disk>>

SpecP3 == InitP3 /\ [][ProcessDataP3]_vars

(***************************************************************************)
(* Properties.                                                             *)
(***************************************************************************)
Last(s) == s[Len(s)]

\* The cache path of the loader, and what its load_cache and build_cache
\* would do from the current state
PathOf ==
    CASE loader = "CollegeDocument" -> DATA_META
      [] loader = "dataset" -> DATA_CSV
      [] OTHER -> B_SHP

CachedNow ==
    CASE loader = "CollegeDocument" -> Document_load_cache(disk, DATA_META)
      [] loader = "dataset" -> College_load_cache(college_document, disk, DATA_CSV)
      [] OTHER -> Geo_load_cache(disk, B_SHP)

\* Whether the panel build of the archive target raises (it does in every
\* listing order or in none)
PanelBuildRaises(target) ==
    College_build_cache(
        college_document, target,
        CHOOSE o \in listdir_orders(DOMAIN College_download_raw_dataset(target).value) : TRUE,
        disk, DATA_CSV).raised

BuildRaisesNow ==
    CASE loader = "CollegeDocument" -> Document_build_cache(remote, disk, DATA_META).raised
      [] loader = "dataset" -> PanelBuildRaises(remote)
      [] OTHER -> Geo_build_cache(remote, disk, B_SHP).raised

\* C1: every load(path) call invokes exactly one of load_cache and
\* build_cache: load_cache if and only if the loader uses the cache and a
\* file is at path, build_cache otherwise; a call that takes the cache
\* downloads nothing and writes nothing to path; a loader that does not use
\* the cache builds even when a file is at path.
C1_ExactlyOneExtensionPoint ==
    \A i \in 1..Len(calls) :
        /\ calls[i].n_load_cache + calls[i].n_build_cache = 1
        /\ (calls[i].n_load_cache = 1) <=> (use_cache /\ calls[i].had_file)
        /\ (calls[i].n_load_cache = 1) => (calls[i].n_download = 0 /\ calls[i].n_write = 0)
        /\ (~use_cache /\ calls[i].had_file) => calls[i].n_build_cache = 1
        /\ (i = Len(calls) /\ calls[i].had_file) => has_cache_file(disk, PathOf)

\* A panel load that found the file the build before it wrote, and read it
C1_CacheTaken ==
    /\ loader = "dataset"
    /\ Len(calls) = 2
    /\ calls[1].n_build_cache = 1 /\ calls[1].n_write = 1
    /\ calls[2].n_load_cache = 1 /\ ~calls[2].raised

\* C2: with no file at path and the cache in use, of two load(path) calls in
\* a row the first builds and the second takes the cache, and the second
\* returns what the first returned: the same rows, columns, values, types and
\* missing values; for the catalog and for the panel.
C2_SecondLoadEqualsFirst ==
    (/\ loader \in {"CollegeDocument", "dataset"}
     /\ use_cache
     /\ Len(calls) >= 2
     /\ ~calls[1].had_file
     /\ ~calls[1].raised)
    => /\ calls[1].n_build_cache = 1
       /\ calls[2].n_load_cache = 1
       /\ ~calls[2].raised
       /\ calls[2].result = calls[1].result

\* C3: a load_cache or build_cache that raises makes load raise: the failed
\* step ran once, the other step did not run, no result is returned, and a
\* failed load_cache leaves the cache directory as it was.
C3_FailuresPropagate ==
    [][LET c == calls'[Len(calls')]
       IN  /\ (use_cache /\ has_cache_file(disk, PathOf) /\ CachedNow.raised)
                => /\ c.raised /\ c.result = <<>>
                   /\ c.n_load_cache = 1 /\ c.n_build_cache = 0
                   /\ c.n_download = 0 /\ c.n_write = 0
                   /\ disk' = disk
           /\ (~(use_cache /\ has_cache_file(disk, PathOf)) /\ BuildRaisesNow)
                => /\ c.raised /\ c.result = <<>>
                   /\ c.n_build_cache = 1 /\ c.n_load_cache = 0
                   /\ c.n_download = 1
                   /\ Last(c.log) = LOG_NOT_FOUND
           /\ c.raised => c.result = <<>>]_vars

\* A catalog load that took a file at path which pickle.load cannot read: it
\* raised, without a build
C3_FailedStep ==
    /\ loader = "CollegeDocument"
    /\ calls # <<>>
    /\ Last(calls).had_file
    /\ Last(calls).n_load_cache = 1
    /\ Last(calls).raised
    /\ Last(calls).n_build_cache = 0
    /\ disk[DATA_META] = NotAFile

HasYear(name) == \E i \in 1..(Len(name) - 3) : \A k \in 0..3 : name[i + k] \in Digits

IsCsv(f) == basename(f.filename) # <<>> /\ endswith(basename(f.filename), CSV_EXT)

NoYearCsv(f) == IsCsv(f) /\ ~HasYear(basename(f.filename))

YearCsv(f) == IsCsv(f) /\ HasYear(basename(f.filename))

\* C4: a .csv member whose basename holds no four digits in a row is skipped
\* by the panel build and is no error: the build returns whenever the build
\* of the archive without such members does.
C4_NoYearMemberSkipped ==
    (loader = "dataset" /\ remote[1] = "zip")
    => \A i \in 1..Len(calls) :
          (/\ calls[i].n_build_cache = 1
           /\ \E k \in 1..Len(remote[2]) : NoYearCsv(remote[2][k])
           /\ ~PanelBuildRaises(<<"zip", SelectSeq(remote[2], LAMBDA f : ~NoYearCsv(f))>>))
          => ~calls[i].raised

\* The columns the extracted files of a build carry
Carried(dir) == UNION {dir[n].data[2].columns : n \in DOMAIN dir}

FirstYear(name) ==
    LET i == CHOOSE i \in 1..(Len(name) - 3) :
                 /\ \A k \in 0..3 : name[i + k] \in Digits
                 /\ \A j \in 1..(i - 1) : \E k \in 0..3 : name[j + k] \notin Digits
    IN  Slice(name, i, i + 3)

\* "<Y>-<Y+1>" of the member f
AcademicYearOf(f) ==
    FirstYear(basename(f.filename)) \o <<"-">> \o str(int(FirstYear(basename(f.filename))) + 1)

\* C6: a .csv member whose basename holds four digits in a row is extracted
\* as "<Y>-<Y+1>.csv", Y being the first such digits, and every row it gives
\* the panel has "<Y>-<Y+1>" as its "Academic Year".
C6_YearTagging ==
    (loader = "dataset" /\ remote[1] = "zip")
    => \A i \in 1..Len(calls) :
          /\ (/\ calls[i].n_build_cache = 1
              /\ \A k \in 1..Len(remote[2]) : ~NoYearCsv(remote[2][k]))
             => \A k \in 1..Len(remote[2]) :
                   YearCsv(remote[2][k])
                   => (AcademicYearOf(remote[2][k]) \o CSV_EXT)
                         \in DOMAIN calls[i].trace.extracted
          /\ \A j \in 1..Len(calls[i].trace.frames) :
                ~calls[i].trace.frames[j].result.raised
                => \A r \in 1..Len(calls[i].trace.frames[j].result.value.rows) :
                      calls[i].trace.frames[j].result.value.rows[r][ACADEMIC_YEAR]
                        = <<"str", AcademicYearOf(remote[2][calls[i].trace.frames[j].member])>>
          /\ ~calls[i].raised
             => \A r \in 1..Len(calls[i].result[1].rows) :
                   \E k \in 1..Len(remote[2]) :
                      /\ YearCsv(remote[2][k])
                      /\ calls[i].result[1].rows[r][ACADEMIC_YEAR]
                           = <<"str", AcademicYearOf(remote[2][k])>>

\* A build from "m20134.csv" and "9999.csv": rows of 2013-2014 and of
\* 9999-10000
C6_YearsTagged ==
    /\ loader = "dataset"
    /\ calls # <<>>
    /\ Last(calls).n_build_cache = 1
    /\ ~Last(calls).raised
    /\ \E k \in 1..Len(remote[2]) : remote[2][k].filename = NAME_20134
    /\ \E r \in 1..Len(Last(calls).result[1].rows) :
          Last(calls).result[1].rows[r][ACADEMIC_YEAR]
            = <<"str", <<"2", "0", "1", "3", "-", "2", "0", "1", "4">>>>
    /\ \E r \in 1..Len(Last(calls).result[1].rows) :
          Last(calls).result[1].rows[r][ACADEMIC_YEAR]
            = <<"str", <<"9", "9", "9", "9", "-", "1", "0", "0", "0", "0">>>>

\* The rows of the processed files together
RECURSIVE SumRows(_)
SumRows(frames) ==
    IF frames = <<>> THEN 0
    ELSE Len(Head(frames).result.value.rows) + SumRows(Tail(frames))

\* C7: the panel a build returns has as many rows as the processed files
\* have together, whatever their number and listing order.
C7_RowConservation ==
    loader = "dataset"
    => \A i \in 1..Len(calls) :
          (calls[i].n_build_cache = 1 /\ ~calls[i].raised)
          => Len(calls[i].result[1].rows) = SumRows(calls[i].trace.frames)

\* A build from two files of the same table of two rows
C7_TwoFilesMerged ==
    /\ loader = "dataset"
    /\ calls # <<>>
    /\ Last(calls).n_build_cache = 1
    /\ ~Last(calls).raised
    /\ Len(Last(calls).trace.frames) = 2
    /\ Last(calls).trace.frames[1].result.value.rows # <<>>
    /\ Len(Last(calls).result[1].rows) >= 3

\* C8: after a geospatial build extracted the archive, the directory holds
\* every member that is no directory under its basename, with the content of
\* the last member of that basename, and no file name holds a "/".
C8_FlattenLastWins ==
    (/\ loader = "geodata"
     /\ remote[1] = "zip"
     /\ \E i \in 1..Len(calls) : calls[i].n_build_cache = 1)
    => /\ \A k \in 1..Len(remote[2]) :
            remote[2][k].filename[Len(remote[2][k].filename)] # "/"
            => /\ basename(remote[2][k].filename) \in DOMAIN disk
               /\ (\A j \in (k + 1)..Len(remote[2]) :
                      basename(remote[2][j].filename) # basename(remote[2][k].filename))
                  => disk[basename(remote[2][k].filename)] = remote[2][k].data
       /\ \A n \in DOMAIN disk : \A p \in 1..Len(n) : n[p] # "/"

\* A build from "s/b.shp" then "b.shp" of another content, and "o/b.shx"
C8_CollidingBasenames ==
    /\ loader = "geodata"
    /\ calls # <<>>
    /\ Last(calls).n_build_cache = 1
    /\ ~Last(calls).raised
    /\ Len(remote[2]) = 3
    /\ remote[2][1].filename = GEO_SUB_SHP
    /\ remote[2][2].filename = GEO_TOP_SHP
    /\ remote[2][1].data # remote[2][2].data
    /\ disk[B_SHP] = remote[2][2].data

\* C9: after build_cache returned or raised, every transient file and
\* directory it opened has been released by the scope that opened it.
C9_AllReleased == \A i \in 1..Len(calls) : calls[i].unreleased = {}

\* The raw ST_FIPS values of the panel that are no key of values_mapping
UnmappedStates(values_mapping) ==
    {remote.rows[r]["ST_FIPS"] : r \in 1..Len(remote.rows)}
    \ ({NaN} \cup {<<"float64", k>> : k \in DOMAIN values_mapping[2]})

\* C10: a raw value that is a key of the column's values_mapping decodes to
\* its label, and a raw value that is no key makes the decoding raise, in
\* replace_legend_value_mappings and in process_data_p2.
C10_AbsentValueIsFatal ==
    loader = "main"
    => \A i \in 1..Len(calls) :
          /\ (/\ calls[i].op = "replace_legend_value_mappings"
              /\ calls[i].legends[1] \in DOMAIN college_document)
             => LET col == college_document[calls[i].legends[1]]
                    absent(l) == key_of(cast(col.column_type, l)) \notin DOMAIN col.values_mapping[2]
                IN  IF \E n \in 2..Len(calls[i].legends) : absent(calls[i].legends[n])
                    THEN calls[i].raised
                    ELSE /\ ~calls[i].raised
                         /\ \A n \in 2..Len(calls[i].legends) :
                               calls[i].result[n] =
                                  col.values_mapping[2][key_of(cast(col.column_type,
                                                                    calls[i].legends[n]))]
          /\ (/\ calls[i].op = "process_data_p2"
              /\ UnmappedStates(college_document["ST_FIPS"].values_mapping) # {})
             => calls[i].raised

\* replace_legend_value_mappings alone: a legend value that is no key of the
\* column's values_mapping makes it raise
LegendAbsentValueIsFatal ==
    loader = "main"
    => \A i \in 1..Len(calls) :
          (/\ calls[i].op = "replace_legend_value_mappings"
           /\ calls[i].legends[1] \in DOMAIN college_document
           /\ \E n \in 2..Len(calls[i].legends) :
                 key_of(cast(college_document[calls[i].legends[1]].column_type,
                             calls[i].legends[n]))
                   \notin DOMAIN college_document[calls[i].legends[1]].values_mapping[2])
          => calls[i].raised

\* The input rows that have every one of the fields cols
Complete(cols) == SelectSeq(remote.rows, LAMBDA r : \A c \in cols : r[c] # NaN)

\* The scores of the rows a process_data_p3 call returned are the quotients
\* (SATVRMID + SATMTMID + SATWRMID) / 2400 and ACTCMMID / 36 of their fields
ScoresDerived(rows) ==
    \A r \in 1..Len(rows) :
        /\ rows[r]["SAT_SCORE_%"][2][2] = 2400
        /\ rows[r]["SAT_SCORE_%"][2][1] =
              number(rows[r]["SATVRMID"]) + number(rows[r]["SATMTMID"])
              + number(rows[r]["SATWRMID"])
        /\ rows[r]["ACT_SCORE_%"][2][2] = 36
        /\ rows[r]["ACT_SCORE_%"][2][1] = number(rows[r]["ACTCMMID"])

\* C11, as stated: process_data_p3 returns one row for each input row that
\* has SATVRMID, SATMTMID, SATWRMID and ACTCMMID, with the two scores
\* derived, and no row for an input row that misses one of the four.
C11_RowsWithFourFields ==
    \A i \in 1..Len(calls) :
        P3_COLUMNS \subseteq remote.columns
        => /\ ~calls[i].raised
           /\ Len(calls[i].result.rows)
                = Len(Complete({"SATVRMID", "SATMTMID", "SATWRMID", "ACTCMMID"}))
           /\ ScoresDerived(calls[i].result.rows)

\* C11, amended: of a panel that has the five columns, process_data_p3
\* returns the rows that have MD_EARN_WNE_P10, SATVRMID, SATMTMID, SATWRMID
\* and ACTCMMID, in their order, each with SAT_SCORE_% = (SATVRMID + SATMTMID
\* + SATWRMID) / 2400 and ACT_SCORE_% = ACTCMMID / 36; a row that misses one
\* of the five is not returned.
C11_RowsWithFiveFields ==
    \A i \in 1..Len(calls) :
        P3_COLUMNS \subseteq remote.columns
        => /\ ~calls[i].raised
           /\ Len(calls[i].result.rows) = Len(Complete(P3_COLUMNS))
           /\ \A r \in 1..Len(calls[i].result.rows) :
                 \A c \in P3_COLUMNS :
                    calls[i].result.rows[r][c] = Complete(P3_COLUMNS)[r][c]
           /\ ScoresDerived(calls[i].result.rows)

\* A call on a row of 500/500/500 and 13 and a row without ACTCMMID: one
\* row, of 1500/2400 = 0.625 and 13/36
C11_ScoresOfCompleteRow ==
    /\ calls # <<>>
    /\ Last(calls).op = "process_data_p3"
    /\ ~Last(calls).raised
    /\ Len(remote.rows) = 2
    /\ Len(Last(calls).result.rows) = 1
    /\ Last(calls).result.rows[1]["SAT_SCORE_%"][2][1] * 8
         = 5 * Last(calls).result.rows[1]["SAT_SCORE_%"][2][2]
    /\ Last(calls).result.rows[1]["ACT_SCORE_%"] = <<"ratio", <<13, 36>>>>

\* The first row of the sheet that names the variable n
FirstRowOf(sheet, n) ==
    sheet[CHOOSE i \in 1..Len(sheet) :
             /\ sheet[i]["VARIABLE NAME"] = <<n>>
             /\ \A j \in 1..(i - 1) : sheet[j]["VARIABLE NAME"] # <<n>>]

\* The type a type cell declares: Float64 for "float" and "integer", Boolean
\* for "boolean", Text for any other token and for a blank cell
DeclaredType(cell) ==
    IF cell = <<>> THEN "str"
    ELSE IF cell[1] \in {"float", "integer"} THEN "float64"
    ELSE IF cell[1] = "boolean" THEN "bool_"
    ELSE "str"

\* The catalogs the schema loader built from a sheet
CatalogBuilt(i) ==
    /\ loader = "CollegeDocument"
    /\ remote[1] = "xlsx"
    /\ calls[i].n_build_cache = 1
    /\ ~calls[i].raised

\* C12: the type of every allow-listed variable of the sheet is the one the
\* type cell of the row that names it declares, Text when that cell is
\* blank, whatever variable precedes it.
C12_TypeOfOwnToken ==
    \A i \in 1..Len(calls) :
        CatalogBuilt(i)
        => \A n \in DOMAIN calls[i].result[1] \ {ACADEMIC_YEAR} :
              calls[i].result[1][n].column_type
                = DeclaredType(FirstRowOf(remote[2], n)["API data type"])

\* The same for the variables whose naming row has a type token
TypeOfPresentToken ==
    \A i \in 1..Len(calls) :
        CatalogBuilt(i)
        => \A n \in DOMAIN calls[i].result[1] \ {ACADEMIC_YEAR} :
              FirstRowOf(remote[2], n)["API data type"] # <<>>
              => calls[i].result[1][n].column_type
                   = DeclaredType(FirstRowOf(remote[2], n)["API data type"])

\* The variable the row i of the sheet belongs to: the nearest name at or
\* above it, <<>> above every name
BlockOf(sheet, i) ==
    LET named == {j \in 1..i : sheet[j]["VARIABLE NAME"] # <<>>}
    IN  IF named = {} THEN <<>>
        ELSE sheet[CHOOSE j \in named : \A k \in named : k <= j]["VARIABLE NAME"]

\* The rows of the blocks of n that hold a value and a label
OwnPairs(sheet, n) ==
    {i \in 1..Len(sheet) :
        /\ BlockOf(sheet, i) = <<n>>
        /\ sheet[i]["VALUE"] # <<>>
        /\ sheet[i]["LABEL"] # <<>>}

\* C13: the values_mapping of every allow-listed variable holds the (value,
\* label) pairs of the rows of its own blocks that have both fields, and
\* nothing else: it is empty for a variable without such a row, and holds no
\* pair of a preceding variable's block.
C13_MappingOfOwnPairs ==
    \A i \in 1..Len(calls) :
        CatalogBuilt(i)
        => \A n \in DOMAIN calls[i].result[1] \ {ACADEMIC_YEAR} :
              LET m == calls[i].result[1][n].values_mapping[2]
                  own == OwnPairs(remote[2], n)
              IN  /\ DOMAIN m = {remote[2][r]["VALUE"][1] : r \in own}
                  /\ \A k \in DOMAIN m :
                        \E r \in own : /\ remote[2][r]["VALUE"][1] = k
                                       /\ remote[2][r]["LABEL"][1] = m[k]

\* The same for the sheets that have no blank VALUE or LABEL cell
MappingOfFullRows ==
    \A i \in 1..Len(calls) :
        (/\ CatalogBuilt(i)
         /\ \A r \in 1..Len(remote[2]) :
               remote[2][r]["VALUE"] # <<>> /\ remote[2][r]["LABEL"] # <<>>)
        => \A n \in DOMAIN calls[i].result[1] \ {ACADEMIC_YEAR} :
              /\ DOMAIN calls[i].result[1][n].values_mapping[2]
                   = {remote[2][r]["VALUE"][1] : r \in OwnPairs(remote[2], n)}
              /\ \A k \in DOMAIN calls[i].result[1][n].values_mapping[2] :
                    \E r \in OwnPairs(remote[2], n) :
                       /\ remote[2][r]["VALUE"][1] = k
                       /\ remote[2][r]["LABEL"][1]
                            = calls[i].result[1][n].values_mapping[2][k]

\* C14: every load prints "Loading" first, then exactly one of "Cache found"
\* and "Cache not found", the former exactly on the hit path; "Done caching"
\* is printed last and only on the miss path after build_cache returned,
\* never on a hit and never when the build raised.
C14_StatusLineOrder ==
    \A i \in 1..Len(calls) :
        LET c == calls[i]
            at(line) == {k \in 1..Len(c.log) : c.log[k] = line}
        IN  /\ at(LOG_LOAD) = {1}
            /\ at(LOG_FOUND) \cup at(LOG_NOT_FOUND) = {2}
            /\ (at(LOG_FOUND) = {2}) <=> c.hit
            /\ at(LOG_BUILT) \subseteq {3}
            /\ at(LOG_BUILT) # {} => ~c.hit /\ ~c.raised /\ c.n_build_cache = 1
            /\ Len(c.log) <= 3

\* A miss whose build raised, after which nothing more is printed
C14_FailedBuildLogged ==
    \E i \in 1..Len(calls) :
        /\ ~calls[i].hit
        /\ calls[i].raised
        /\ calls[i].log = <<LOG_LOAD, LOG_NOT_FOUND>>

\* A build_cache call that returned, and one that raised
BuildSucceeded(c) == ~c.hit /\ ~c.raised
BuildFailed(c) == ~c.hit /\ c.raised

\* Starting with no file at path, a file is at path only after some build
\* returned; and the load after a failed build of a caching loader misses
NoArtifactWithoutBuild ==
    /\ (/\ Len(calls) > 0
        /\ ~calls[1].had_file
        /\ has_cache_file(disk, PathOf))
       => \E i \in 1..Len(calls) : BuildSucceeded(calls[i])
    /\ \A i \in 1..Len(calls) - 1 :
          use_cache /\ BuildFailed(calls[i]) => ~calls[i + 1].hit

\* C15: for the three loaders, a build that raised leaves no file at path: a
\* file is at path after a sequence of loads only if some build of the
\* sequence returned, and a caching load that follows a failed build takes
\* the miss path.
C15_FailedBuildLeavesNoArtifact == NoArtifactWithoutBuild

\* The same for the catalog and the panel loaders alone
FailedBuildLeavesNoArtifactButGeo == loader # "geodata" => NoArtifactWithoutBuild

\* The positions of the archive's members that are .csv files naming a year
YearMembers == {k \in 1..Len(remote[2]) : YearCsv(remote[2][k])}

\* Whether the call i is a panel build that returned
PanelBuilt(i) ==
    /\ loader = "dataset"
    /\ calls[i].n_build_cache = 1
    /\ ~calls[i].raised

\* C16: a panel build merges one fragment for every .csv member of the
\* archive whose basename names a year, also when two of the members are
\* renamed to the same "<year>-<year + 1>.csv".
C16_OneFragmentPerYearMember ==
    \A i \in 1..Len(calls) :
        PanelBuilt(i) => Len(calls[i].trace.frames) = Cardinality(YearMembers)

\* The same for the archives whose members are renamed to distinct names
OneFragmentPerRenamedName ==
    \A i \in 1..Len(calls) :
        (/\ PanelBuilt(i)
         /\ \A j, k \in YearMembers :
               year_file_name(basename(remote[2][j].filename))
                 = year_file_name(basename(remote[2][k].filename)) => j = k)
        => Len(calls[i].trace.frames) = Cardinality(YearMembers)

====
